---------------------------- MODULE Spec2Model ----------------------------
(***************************************************************************)
(* A model of the rsraytracer path tracer: the Vec3 algebra, Ray,          *)
(* Sphere::hit, ObjectList::hit, the scatter of Metal and Dielectric,      *)
(* ray_color and the render loop of main.                                  *)
(*                                                                         *)
(* The program computes in f64.  The model computes exactly: a scalar is a *)
(* number (n + s*sqrt(D))/d with integers n, s, D, d, which is closed      *)
(* under what the code does to rational inputs (one square root of a       *)
(* discriminant or of a squared length).  Rounding is therefore not        *)
(* modelled; +infinity is the number with d = 0.  A ray with a zero        *)
(* direction (a = 0, a NaN root) is not among the inputs.                  *)
(*                                                                         *)
(* A function of the source whose locals are used more than once is        *)
(* written as a chain of operators, each local a parameter of the next.    *)
(***************************************************************************)
EXTENDS Integers, Sequences, FiniteSets, TLC

VARIABLES
    call,       \* the arguments of the call made (a record with op)
    ret,        \* what that call returned
    stack,      \* ray_color: the attenuations of the frames awaiting a result
    cur,        \* ray_color: [ray, depth] of the innermost activation
    tpc,        \* ray_color: "idle", "enter", "unwind", "done"
    result,     \* ray_color: the colour being returned up the frames
    tlog,       \* ray_color: what each activation did, outermost first
    rows,       \* main: what (0..IMAGE_HEIGHT).rev() has yet to yield
    j,          \* main: the row
    cols,       \* main: what 0..IMAGE_WIDTH has yet to yield
    i,          \* main: the column
    sample,     \* main: the samples of the pixel taken so far
    color,      \* main: the pixel's accumulated colour
    out,        \* main: the lines printed to stdout, in order
    err,        \* main: the lines printed to stderr, in order
    order,      \* main: the pixels <<j, i>> whose line was printed, in order
    mpc         \* main: "idle", "header", "row", "pixel", "sample", "done"

vars ==
    <<call, ret, stack, cur, tpc, result, tlog,
      rows, j, cols, i, sample, color, out, err, order, mpc>>

callVars == <<call, ret>>

traceVars == <<stack, cur, tpc, result, tlog>>

mainVars == <<rows, j, cols, i, sample, color, out, err, order, mpc>>

-----------------------------------------------------------------------------
(* Scalars: (n + s*sqrt(D))/d, d > 0; d = 0 is +infinity.                  *)

Abs(x) == IF x < 0 THEN -x ELSE x

Sgn(x) == IF x < 0 THEN -1 ELSE IF x > 0 THEN 1 ELSE 0

RECURSIVE GCD(_, _)
GCD(x, y) == IF y = 0 THEN x ELSE GCD(y, x % y)

\* the integer square root (Newton's iteration from x)
RECURSIVE IsqrtFrom(_, _)
IsqrtFrom(n, x) ==
    IF (x + n \div x) \div 2 >= x THEN x
    ELSE IsqrtFrom(n, (x + n \div x) \div 2)

Isqrt(n) == IF n < 2 THEN n ELSE IsqrtFrom(n, n)

\* n, s, d divided by their common divisor g, with d made positive
ReduceBy(n, s, D, d, g) ==
    IF g = 0 THEN [n |-> 0, s |-> 0, D |-> 0, d |-> 1]
    ELSE [n |-> (Sgn(d) * n) \div g, s |-> (Sgn(d) * s) \div g,
          D |-> IF s = 0 THEN 0 ELSE D, d |-> Abs(d) \div g]

Reduce(n, s, D, d) == ReduceBy(n, s, D, d, GCD(GCD(Abs(n), Abs(s)), Abs(d)))

\* r = Isqrt(D): the square root of a perfect square is taken
NumRoot(n, s, D, d, r) ==
    IF r * r = D THEN Reduce(n + s * r, 0, 0, d) ELSE Reduce(n, s, D, d)

\* the number (n + s*sqrt(D))/d, d # 0, in lowest terms
Num(n, s, D, d) == NumRoot(n, s, D, d, Isqrt(D))

Rat(n, d) == Reduce(n, 0, 0, d)

Int2Num(k) == [n |-> k, s |-> 0, D |-> 0, d |-> 1]

Infinity == [n |-> 1, s |-> 0, D |-> 0, d |-> 0]

IsInf(x) == x.d = 0

\* the sign of p/q - (sqrt(D) + m)/k for p, q, k > 0 and D no perfect square,
\* r = Isqrt(D): by the continued fractions of the two sides, which keeps every
\* intermediate value below max(p, q, 2 r)
RECURSIVE CmpRatSurd(_, _, _, _, _, _)
CmpRatSurd(p, q, m, k, D, r) ==
    LET a == (r + m) \div k
        b == p \div q
        m1 == a * k - m
    IN  IF b # a THEN Sgn(b - a)
        ELSE IF p - b * q = 0 THEN -1
        ELSE -CmpRatSurd(q, p - b * q, m1, (D - m1 * m1) \div k, D, r)

\* the sign of x - y sqrt(D) for x, y > 0 coprime, r = Isqrt(D)
CmpSurd(x, y, D, r) ==
    IF r * r = D THEN Sgn(x - y * r) ELSE CmpRatSurd(x, y, 0, 1, D, r)

\* the sign of X + Y*sqrt(D)
SignSurd(X, Y, D) ==
    IF Y = 0 \/ D = 0 THEN Sgn(X)
    ELSE IF X = 0 THEN Sgn(Y)
    ELSE IF Sgn(X) = Sgn(Y) THEN Sgn(X)
    ELSE Sgn(X) * CmpSurd(Abs(X) \div GCD(Abs(X), Abs(Y)),
                          Abs(Y) \div GCD(Abs(X), Abs(Y)), D, Isqrt(D))

\* the sign of (A + B*sqrt(D1)) + C*sqrt(D2), u the sign of the first term:
\* when the two terms differ in sign, by their squares
SignMixed(A, B, D1, C, D2, u) ==
    IF u = 0 THEN Sgn(C)
    ELSE IF u = Sgn(C) THEN u
    ELSE u * SignSurd(A * A + B * B * D1 - C * C * D2, 2 * A * B, D1)

\* the sign of A + B*sqrt(D1) + C*sqrt(D2)
SignSurd2(A, B, D1, C, D2) ==
    IF C = 0 \/ D2 = 0 THEN SignSurd(A, B, D1)
    ELSE IF B = 0 \/ D1 = 0 THEN SignSurd(A, C, D2)
    ELSE IF D1 = D2 THEN SignSurd(A, B + C, D1)
    ELSE SignMixed(A, B, D1, C, D2, SignSurd(A, B, D1))

NumSign(x) == SignSurd(x.n, x.s, x.D)

\* the sign of x - y, x and y finite
NumCmp(x, y) ==
    SignSurd2(x.n * y.d - y.n * x.d, x.s * y.d, x.D, -(y.s * x.d), y.D)

\* f64's x < y, with +infinity
Lt(x, y) ==
    IF IsInf(x) THEN FALSE
    ELSE IF IsInf(y) THEN TRUE
    ELSE NumCmp(x, y) < 0

NumEq(x, y) ==
    IF IsInf(x) \/ IsInf(y) THEN IsInf(x) /\ IsInf(y) ELSE NumCmp(x, y) = 0

\* the square root two numbers added or multiplied share
RadOf(x, y) == IF x.s = 0 THEN y.D ELSE x.D

NumNeg(x) == Reduce(-x.n, -x.s, x.D, x.d)

NumAdd(x, y) ==
    Num(x.n * y.d + y.n * x.d, x.s * y.d + y.s * x.d, RadOf(x, y), x.d * y.d)

NumSub(x, y) == NumAdd(x, NumNeg(y))

NumMul(x, y) ==
    Num(x.n * y.n + x.s * y.s * RadOf(x, y), x.n * y.s + x.s * y.n,
        RadOf(x, y), x.d * y.d)

\* 1/x, x # 0: d (n - s sqrt D) / (n^2 - s^2 D)
NumInv(x) == Num(x.d * x.n, -(x.d * x.s), x.D, x.n * x.n - x.s * x.s * x.D)

NumDiv(x, y) == NumMul(x, NumInv(y))

\* f64::sqrt of a rational x >= 0: sqrt(n/d) = sqrt(n d)/d
NumSqrt(x) == Num(0, IF x.n = 0 THEN 0 ELSE 1, x.n * x.d, x.d)

\* f64::abs
NumAbs(x) == IF NumSign(x) < 0 THEN NumNeg(x) ELSE x

\* f64::min
NumMin(x, y) == IF Lt(y, x) THEN y ELSE x

-----------------------------------------------------------------------------
(* vec3.rs and ray.rs                                                      *)

Vec3(x, y, z) == <<x, y, z>>

\* a vector with integer components
IV(x, y, z) == <<Int2Num(x), Int2Num(y), Int2Num(z)>>

VAdd(a, b) == <<NumAdd(a[1], b[1]), NumAdd(a[2], b[2]), NumAdd(a[3], b[3])>>

VSub(a, b) == <<NumSub(a[1], b[1]), NumSub(a[2], b[2]), NumSub(a[3], b[3])>>

VNeg(a) == <<NumNeg(a[1]), NumNeg(a[2]), NumNeg(a[3])>>

\* Mul<f64> for Vec3
VScale(a, k) == <<NumMul(a[1], k), NumMul(a[2], k), NumMul(a[3], k)>>

\* Mul<Vec3> for Vec3 (component-wise)
VMul(a, b) == <<NumMul(a[1], b[1]), NumMul(a[2], b[2]), NumMul(a[3], b[3])>>

\* Div<f64> for Vec3
VDiv(a, k) == <<NumDiv(a[1], k), NumDiv(a[2], k), NumDiv(a[3], k)>>

dot(a, b) ==
    NumAdd(NumAdd(NumMul(a[1], b[1]), NumMul(a[2], b[2])), NumMul(a[3], b[3]))

cross(a, b) ==
    <<NumSub(NumMul(a[2], b[3]), NumMul(a[3], b[2])),
      NumSub(NumMul(a[3], b[1]), NumMul(a[1], b[3])),
      NumSub(NumMul(a[1], b[2]), NumMul(a[2], b[1]))>>

len_squared(a) == dot(a, a)

len(a) == NumSqrt(len_squared(a))

unit_vector(a) == VDiv(a, len(a))

VEq(a, b) == NumEq(a[1], b[1]) /\ NumEq(a[2], b[2]) /\ NumEq(a[3], b[3])

Ray(origin, direction) == [origin |-> origin, direction |-> direction]

at(ray, t) == VAdd(ray.origin, VScale(ray.direction, t))

-----------------------------------------------------------------------------
(* object.rs: the intersection protocol                                    *)

None == <<>>

Some(x) == <<x>>

IsSome(o) == o # <<>>

Unwrap(o) == o[1]

\* set_face_normal without its else arm: the normal is never negated
FaceNormalOutward(rec, outward_normal, front_face) ==
    [rec EXCEPT !.front_face = front_face, !.normal = outward_normal]

\* HitRecord::set_face_normal, for front_face as line 14 computes it
FaceNormal(rec, outward_normal, front_face) ==
    [rec EXCEPT !.front_face = front_face,
                !.normal = IF front_face THEN outward_normal
                           ELSE VNeg(outward_normal)]

set_face_normal(rec, ray, outward_normal) ==
    FaceNormal(rec, outward_normal,
               NumSign(dot(ray.direction, outward_normal)) < 0)

\* root < t_min || t_max < root
OutOfRange(root, t_min, t_max) == Lt(root, t_min) \/ Lt(t_max, root)

\* Sphere::hit from `let mut rec` on, for p = ray.at(t)
SphereRecordAt(sphere, ray, t, p) ==
    set_face_normal([t |-> t, p |-> p, normal |-> IV(0, 0, 0),
                     front_face |-> FALSE, material |-> sphere.material],
                    ray, VDiv(VSub(p, sphere.center), sphere.radius))

SphereRecord(sphere, ray, t) == SphereRecordAt(sphere, ray, t, at(ray, t))

\* Sphere::hit reading the larger root where the code reads the smaller
SphereRootsFar(sphere, ray, t_min, t_max, root, inner) ==
    IF OutOfRange(root, t_min, t_max) /\ OutOfRange(inner, t_min, t_max)
    THEN None
    ELSE Some(SphereRecord(sphere, ray, inner))

\* Sphere::hit from the first `let root` on.  The second `let root` (inner)
\* is declared inside the if block: it is tested there and dropped at the
\* block's end, so `let t = root` reads the first one.
SphereRoots(sphere, ray, t_min, t_max, root, inner) ==
    IF OutOfRange(root, t_min, t_max) /\ OutOfRange(inner, t_min, t_max)
    THEN None
    ELSE Some(SphereRecord(sphere, ray, root))

\* Sphere::hit from the discriminant test on
SphereDisc(sphere, ray, t_min, t_max, a, half_b, discriminant) ==
    IF NumSign(discriminant) < 0 THEN None
    ELSE SphereRoots(sphere, ray, t_min, t_max,
             NumDiv(NumSub(NumNeg(half_b), NumSqrt(discriminant)), a),
             NumDiv(NumAdd(NumNeg(half_b), NumSqrt(discriminant)), a))

\* Sphere::hit from `let discriminant` on
SphereQuad(sphere, ray, t_min, t_max, a, half_b, c) ==
    SphereDisc(sphere, ray, t_min, t_max, a, half_b,
               NumSub(NumMul(half_b, half_b), NumMul(a, c)))

\* Sphere::hit from `let a` on
SphereOc(sphere, ray, t_min, t_max, oc) ==
    SphereQuad(sphere, ray, t_min, t_max,
               len_squared(ray.direction),
               dot(oc, ray.direction),
               NumSub(len_squared(oc), NumMul(sphere.radius, sphere.radius)))

\* Sphere::hit
SphereHit(sphere, ray, t_min, t_max) ==
    SphereOc(sphere, ray, t_min, t_max, VSub(ray.origin, sphere.center))

\* the body of ObjectList::hit's loop for one child: held is hit_anything and
\* closest_so_far before it, rec what the child's hit returned
Closer(held, rec) ==
    IF IsSome(rec)
    THEN [hit_anything |-> rec, closest_so_far |-> Unwrap(rec).t]
    ELSE held

LoopBody(held, object, ray, t_min) ==
    Closer(held, SphereHit(object, ray, t_min, held.closest_so_far))

\* ObjectList::hit's loop over the first k children
RECURSIVE HitLoop(_, _, _, _, _)
HitLoop(objects, k, ray, t_min, t_max) ==
    IF k = 0 THEN [hit_anything |-> None, closest_so_far |-> t_max]
    ELSE LoopBody(HitLoop(objects, k - 1, ray, t_min, t_max),
                  objects[k], ray, t_min)

\* ObjectList::hit
ObjectListHit(objects, ray, t_min, t_max) ==
    HitLoop(objects, Len(objects), ray, t_min, t_max).hit_anything

-----------------------------------------------------------------------------
(* object.rs: the materials                                                *)

RECURSIVE powi(_, _)
powi(x, k) == IF k = 0 THEN Int2Num(1) ELSE NumMul(x, powi(x, k - 1))

reflect(v, n) == VSub(v, VScale(VScale(n, dot(v, n)), Int2Num(2)))

\* refract from `let r_out_parallel` on.  r_out_perp and r_out_parallel lie
\* over different square roots (of |direction|^2 and of 1 - |r_out_perp|^2),
\* so their sum is kept as the pair of its two terms.
RefractParallel(n, r_out_perp) ==
    <<r_out_perp,
      VScale(n, NumNeg(NumSqrt(NumAbs(
          NumSub(Int2Num(1), len_squared(r_out_perp))))))>>

refract(uv, n, etai_over_etat) ==
    RefractParallel(n,
        VScale(VAdd(uv, VScale(n, NumMin(dot(VNeg(uv), n), Int2Num(1)))),
               etai_over_etat))

\* Dielectric::reflectance (Schlick) from its last line on, r0 squared
ReflectanceR0(cosine, r0) ==
    NumAdd(r0, NumMul(NumSub(Int2Num(1), r0),
                      powi(NumSub(Int2Num(1), cosine), 5)))

\* r0 = r0 * r0
Squared(r0) == NumMul(r0, r0)

\* Dielectric::reflectance
reflectance(cosine, ref_idx) ==
    ReflectanceR0(cosine,
        Squared(NumDiv(NumSub(Int2Num(1), ref_idx),
                       NumAdd(Int2Num(1), ref_idx))))

\* Dielectric::scatter from `let sin_theta` on; u is what random_float()
\* returns
DielectricDirection(rec, u, refraction_ratio, unit_direction, cos_theta) ==
    Some([attenuation |-> IV(1, 1, 1),
          scattered |->
            Ray(rec.p,
                IF \/ Lt(Int2Num(1),
                         NumMul(refraction_ratio,
                                NumSqrt(NumSub(Int2Num(1),
                                               NumMul(cos_theta, cos_theta)))))
                   \/ Lt(u, reflectance(cos_theta, refraction_ratio))
                THEN <<reflect(unit_direction, rec.normal)>>
                ELSE refract(unit_direction, rec.normal, refraction_ratio))])

\* Dielectric::scatter from `let cos_theta` on
DielectricCos(rec, u, refraction_ratio, unit_direction) ==
    DielectricDirection(rec, u, refraction_ratio, unit_direction,
        NumMin(NumNeg(dot(unit_direction, rec.normal)), Int2Num(1)))

\* Dielectric::scatter with the arms of refraction_ratio exchanged
DielectricScatterSwapped(mat, ray, rec, u) ==
    DielectricCos(rec, u,
        IF rec.front_face THEN mat.ref_idx
        ELSE NumDiv(Int2Num(1), mat.ref_idx),
        unit_vector(ray.direction))

\* Dielectric::scatter
DielectricScatter(mat, ray, rec, u) ==
    DielectricCos(rec, u,
        IF rec.front_face THEN NumDiv(Int2Num(1), mat.ref_idx)
        ELSE mat.ref_idx,
        unit_vector(ray.direction))

\* Vec3::random_in_unit_sphere: draws are the points random_range(-1, 1)
\* returns, in order; the loop returns the first of squared length < 1
RECURSIVE random_in_unit_sphere(_)
random_in_unit_sphere(draws) ==
    IF ~Lt(len_squared(Head(draws)), Int2Num(1))
    THEN random_in_unit_sphere(Tail(draws))
    ELSE Head(draws)

\* Metal::scatter accepting a direction that lies in the surface (>= 0.0)
MetalAcceptGrazing(mat, rec, scattered) ==
    IF NumSign(dot(scattered.direction, rec.normal)) >= 0
    THEN Some([attenuation |-> mat.albedo, scattered |-> scattered])
    ELSE None

\* Metal::scatter from its if on
MetalAccept(mat, rec, scattered) ==
    IF NumSign(dot(scattered.direction, rec.normal)) > 0
    THEN Some([attenuation |-> mat.albedo, scattered |-> scattered])
    ELSE None

\* Metal::scatter
MetalScatter(mat, ray, rec, draws) ==
    MetalAccept(mat, rec,
        Ray(rec.p, VAdd(reflect(unit_vector(ray.direction), rec.normal),
                        VScale(random_in_unit_sphere(draws), mat.fuzz))))

-----------------------------------------------------------------------------
(* The materials and spheres main builds, and the inputs of the calls      *)

Lambertian(albedo) ==
    [kind |-> "Lambertian", albedo |-> albedo, fuzz |-> Int2Num(0),
     ref_idx |-> Int2Num(1)]

Metal(albedo, fuzz) ==
    [kind |-> "Metal", albedo |-> albedo, fuzz |-> fuzz, ref_idx |-> Int2Num(1)]

Dielectric(ref_idx) ==
    [kind |-> "Dielectric", albedo |-> IV(1, 1, 1), fuzz |-> Int2Num(0),
     ref_idx |-> ref_idx]

Color(r, g, b) == <<r, g, b>>

material_ground == Lambertian(Color(Rat(8, 10), Rat(8, 10), Rat(0, 1)))

material_center == Lambertian(Color(Rat(1, 10), Rat(2, 10), Rat(5, 10)))

material_left == Dielectric(Rat(15, 10))

material_right == Metal(Color(Rat(8, 10), Rat(6, 10), Rat(2, 10)), Rat(0, 1))

Sphere(center, radius, material) ==
    [center |-> center, radius |-> radius, material |-> material]

\* main's spheres 2 to 5, then two more: one further down the -z axis and one
\* around the camera's origin
Spheres ==
    { Sphere(IV(0, 0, -1), Rat(1, 2), material_center),
      Sphere(IV(-1, 0, -1), Rat(1, 2), material_left),
      Sphere(IV(-1, 0, -1), Rat(-4, 10), material_left),
      Sphere(IV(1, 0, -1), Rat(1, 2), material_right),
      Sphere(IV(0, 0, -3), Rat(1, 1), material_ground),
      Sphere(IV(0, 0, 0), Rat(2, 1), material_ground) }

\* the spheres an ObjectList is built from
ListSpheres ==
    { Sphere(IV(0, 0, -1), Rat(1, 2), material_center),
      Sphere(IV(-1, 0, -1), Rat(-4, 10), material_left),
      Sphere(IV(0, 0, -3), Rat(1, 1), material_ground),
      Sphere(IV(0, 0, 0), Rat(2, 1), material_ground) }

Origins ==
    { IV(0, 0, 0), IV(0, 0, -1), IV(-1, 0, -1), IV(0, 0, -5), IV(1, 0, 0),
      IV(-1, 0, 1) }

Directions ==
    { IV(0, 0, -1), IV(0, 0, 1), IV(0, 0, -2), IV(-1, 0, -1), IV(1, 0, -1),
      IV(1, 0, 0), IV(0, 1, -1), IV(-1, 0, -2) }

Rays == { Ray(o, d) : o \in Origins, d \in Directions }

\* scatter reads only the ray's direction
ScatterRays == { Ray(IV(0, 0, 0), d) : d \in Directions \ {IV(-1, 0, -2)} }

\* ray_color's interval is (T_MIN, Infinity)
T_MIN == Rat(1, 1000)

TMins == { Rat(-4, 1), Rat(0, 1), T_MIN, Rat(1, 1) }

TMaxs == { Infinity, Rat(3, 1), Rat(1, 2) }

MaxObjects == 2

\* the lists of at most n spheres
RECURSIVE Worlds(_)
Worlds(n) ==
    IF n = 0 THEN { <<>> }
    ELSE Worlds(n - 1) \cup
         { Append(w, sp) : w \in { x \in Worlds(n - 1) : Len(x) = n - 1 },
                           sp \in ListSpheres }

Black == Color(Rat(0, 1), Rat(0, 1), Rat(0, 1))

Idle == [op |-> "none"]

\* no call made, ray_color not entered, main not started
Init ==
    /\ call = Idle
    /\ ret = None
    /\ stack = <<>>
    /\ cur = <<>>
    /\ tpc = "idle"
    /\ result = <<>>
    /\ tlog = <<>>
    /\ rows = <<>>
    /\ j = 0
    /\ cols = <<>>
    /\ i = 0
    /\ sample = 0
    /\ color = Black
    /\ out = <<>>
    /\ err = <<>>
    /\ order = <<>>
    /\ mpc = "idle"

-----------------------------------------------------------------------------
(* Sphere::hit and ObjectList::hit as calls, one step each: call holds the *)
(* arguments, ret the result                                               *)

CallSphereHit ==
    /\ call = Idle
    /\ \E sphere \in Spheres, ray \in Rays, t_min \in TMins, t_max \in TMaxs :
         /\ call' = [op |-> "Sphere.hit", objects |-> <<sphere>>, ray |-> ray,
                     t_min |-> t_min, t_max |-> t_max]
         /\ ret' = SphereHit(sphere, ray, t_min, t_max)
    /\ UNCHANGED <<traceVars, mainVars>>

CallObjectListHit ==
    /\ call = Idle
    /\ \E objects \in Worlds(MaxObjects), ray \in Rays,
          t_min \in {Rat(0, 1), T_MIN}, t_max \in {Infinity, Rat(3, 1)} :
         /\ call' = [op |-> "ObjectList.hit", objects |-> objects, ray |-> ray,
                     t_min |-> t_min, t_max |-> t_max]
         /\ ret' = ObjectListHit(objects, ray, t_min, t_max)
    /\ UNCHANGED <<traceVars, mainVars>>

NextHit == CallSphereHit \/ CallObjectListHit

SpecHit == Init /\ [][NextHit]_vars

-----------------------------------------------------------------------------
(* The scatter calls.  A record handed to scatter comes from a hit, so its *)
(* normal is a unit vector that does not point along the ray               *)
(* (set_face_normal).                                                      *)

Normals ==
    { IV(0, 0, 1), IV(0, 0, -1), IV(1, 0, 0), IV(0, 1, 0),
      Vec3(Rat(3, 5), Rat(0, 1), Rat(4, 5)) }

HitPoints == { Vec3(Rat(0, 1), Rat(0, 1), Rat(-1, 2)), IV(1, 0, -3) }

Metals ==
    { material_right,
      Metal(Color(Rat(8, 10), Rat(8, 10), Rat(8, 10)), Rat(1, 2)),
      Metal(Color(Rat(8, 10), Rat(6, 10), Rat(2, 10)), Rat(1, 1)) }

Dielectrics == { material_left, Dielectric(Rat(2, 1)) }

\* values of random_float(), in [0, 1)
Uniforms == { Rat(0, 1), Rat(1, 25), Rat(1, 2), Rat(9, 10) }

\* values of random_range(-1, 1) that the rejection loop accepts, and rejects
InBall ==
    { IV(0, 0, 0), Vec3(Rat(1, 2), Rat(0, 1), Rat(0, 1)),
      Vec3(Rat(0, 1), Rat(0, 1), Rat(-9, 10)),
      Vec3(Rat(-1, 2), Rat(1, 2), Rat(-1, 2)),
      Vec3(Rat(0, 1), Rat(-1, 2), Rat(1, 2)) }

OutOfBall == { IV(-1, 0, 0), Vec3(Rat(9, 10), Rat(9, 10), Rat(0, 1)) }

MaxRejects == 1

\* the draws of one random_in_unit_sphere call: rejected ones, then one kept
RECURSIVE DrawSeqs(_)
DrawSeqs(n) ==
    IF n = 0 THEN { <<q>> : q \in InBall }
    ELSE DrawSeqs(n - 1) \cup
         { <<q>> \o w : q \in OutOfBall,
                        w \in { x \in DrawSeqs(n - 1) : Len(x) = n } }

HitRecords(ray) ==
    { [t |-> Rat(1, 2), p |-> p, normal |-> n, front_face |-> f,
       material |-> material_center] :
        p \in HitPoints,
        n \in { m \in Normals : NumSign(dot(ray.direction, m)) <= 0 },
        f \in BOOLEAN }

CallMetalScatter ==
    /\ call = Idle
    /\ \E mat \in Metals, ray \in ScatterRays, draws \in DrawSeqs(MaxRejects) :
         \E rec \in HitRecords(ray) :
           /\ call' = [op |-> "Metal.scatter", mat |-> mat, ray |-> ray,
                       rec |-> rec, draws |-> draws, u |-> Rat(0, 1)]
           /\ ret' = MetalScatter(mat, ray, rec, draws)
    /\ UNCHANGED <<traceVars, mainVars>>

CallDielectricScatter ==
    /\ call = Idle
    /\ \E mat \in Dielectrics, ray \in ScatterRays, u \in Uniforms :
         \E rec \in HitRecords(ray) :
           /\ call' = [op |-> "Dielectric.scatter", mat |-> mat, ray |-> ray,
                       rec |-> rec, draws |-> <<>>, u |-> u]
           /\ ret' = DielectricScatter(mat, ray, rec, u)
    /\ UNCHANGED <<traceVars, mainVars>>

NextScatter == CallMetalScatter \/ CallDielectricScatter

SpecScatter == Init /\ [][NextScatter]_vars

-----------------------------------------------------------------------------
(* main.rs: ray_color, one activation a step                               *)

\* the world main builds, in push order
World ==
    << Sphere(Vec3(Rat(0, 1), Rat(-1005, 10), Rat(-1, 1)), Rat(100, 1),
              material_ground),
       Sphere(IV(0, 0, -1), Rat(1, 2), material_center),
       Sphere(IV(-1, 0, -1), Rat(1, 2), material_left),
       Sphere(IV(-1, 0, -1), Rat(-4, 10), material_left),
       Sphere(IV(1, 0, -1), Rat(1, 2), material_right) >>

\* the worlds ray_color is called with: main's, an empty one, the metal ball
TraceWorlds == { World, <<>>, <<World[5]>> }

\* rays from the eye at the origin, and rays that start inside the glass and
\* on the ground
TraceRays ==
    { Ray(IV(0, 0, 0), IV(0, 0, -1)), Ray(IV(0, 0, 0), IV(-1, 0, -1)),
      Ray(IV(0, 0, 0), IV(1, 0, -1)), Ray(IV(0, 0, 0), IV(0, 1, -1)),
      Ray(IV(0, 0, 0), IV(0, -1, -1)), Ray(IV(-1, 0, -1), IV(0, 0, 1)),
      Ray(IV(0, 0, -3), IV(0, 1, 0)) }

MaxDepth == 2

\* the miss arm of ray_color from its last line on
SkyAt(t) ==
    VAdd(VScale(Color(Rat(1, 1), Rat(1, 1), Rat(1, 1)), NumSub(Int2Num(1), t)),
         VScale(Color(Rat(5, 10), Rat(7, 10), Rat(1, 1)), t))

\* the miss arm of ray_color
Sky(r) ==
    SkyAt(NumMul(Rat(1, 2), NumAdd(unit_vector(r.direction)[2], Int2Num(1))))

\* What rec.material.scatter(r, &rec) can return over all its random draws.
\* A Dielectric always scatters, with attenuation (1,1,1); a Metal and a
\* Lambertian scatter with their albedo or return None.  The scattered ray
\* depends on the draws; it is taken from TraceRays.
ScatterOutcomes(material) ==
    IF material.kind = "Dielectric"
    THEN { Some([attenuation |-> IV(1, 1, 1), scattered |-> r]) : r \in TraceRays }
    ELSE {None} \cup
         { Some([attenuation |-> material.albedo, scattered |-> r]) :
             r \in TraceRays }

\* world.hit(r, 0.001, INFINITY) of ray_color line 16, for each world and ray
\* ray_color is called with
WorldHit ==
    [world \in TraceWorlds |->
        [r \in TraceRays |-> ObjectListHit(world, r, T_MIN, Infinity)]]

\* the miss arm for each of those rays
SkyOf == [r \in TraceRays |-> Sky(r)]

\* the budget test as depth < 0
OutOfBudgetNegative(depth) == depth < 0

\* if depth <= 0
OutOfBudget(depth) == depth <= 0

\* what an activation did: outcome is "budget", "miss", "absorbed" or
\* "scattered"; hit and scatter tell whether it called world.hit and
\* material.scatter
Activation(outcome, attenuation) ==
    [ray |-> cur.ray, depth |-> cur.depth, outcome |-> outcome,
     hit |-> outcome # "budget",
     scatter |-> outcome \in {"absorbed", "scattered"},
     attenuation |-> attenuation]

\* a call ray_color(&r, &world, depth)
CallRayColor ==
    /\ call = Idle
    /\ tpc = "idle"
    /\ \E r \in TraceRays, world \in TraceWorlds, depth \in (-1)..MaxDepth :
         /\ call' = [op |-> "ray_color", ray |-> r, world |-> world,
                     depth |-> depth]
         /\ cur' = [ray |-> r, depth |-> depth]
    /\ tpc' = "enter"
    /\ UNCHANGED <<ret, stack, result, tlog, mainVars>>

\* if depth <= 0 { return Color::new(0.0, 0.0, 0.0); }
EnterBudget ==
    /\ tpc = "enter"
    /\ OutOfBudget(cur.depth)
    /\ result' = Black
    /\ tlog' = Append(tlog, Activation("budget", Black))
    /\ tpc' = "unwind"
    /\ UNCHANGED <<call, ret, stack, cur, mainVars>>

\* world.hit(r, 0.001, INFINITY) is None: the sky
EnterMiss ==
    /\ tpc = "enter"
    /\ ~OutOfBudget(cur.depth)
    /\ WorldHit[call.world][cur.ray] = None
    /\ result' = SkyOf[cur.ray]
    /\ tlog' = Append(tlog, Activation("miss", Black))
    /\ tpc' = "unwind"
    /\ UNCHANGED <<call, ret, stack, cur, mainVars>>

\* a hit whose material returns None
EnterAbsorbed ==
    /\ tpc = "enter"
    /\ ~OutOfBudget(cur.depth)
    /\ \E rec \in {WorldHit[call.world][cur.ray]} :
         /\ IsSome(rec)
         /\ None \in ScatterOutcomes(Unwrap(rec).material)
    /\ result' = Black
    /\ tlog' = Append(tlog, Activation("absorbed", Black))
    /\ tpc' = "unwind"
    /\ UNCHANGED <<call, ret, stack, cur, mainVars>>

\* a hit whose material scatters: attenuation * ray_color(&scattered, world,
\* depth - 1), the multiplication left to do when the inner call returns
EnterScatter ==
    /\ tpc = "enter"
    /\ ~OutOfBudget(cur.depth)
    /\ \E rec \in {WorldHit[call.world][cur.ray]} :
         /\ IsSome(rec)
         /\ \E sc \in ScatterOutcomes(Unwrap(rec).material) \ {None} :
              /\ stack' = Append(stack, Unwrap(sc).attenuation)
              /\ cur' = [ray |-> Unwrap(sc).scattered, depth |-> cur.depth - 1]
              /\ tlog' = Append(tlog, Activation("scattered",
                                                 Unwrap(sc).attenuation))
    /\ UNCHANGED <<call, ret, tpc, result, mainVars>>

\* an inner call's result handed up without the frame's attenuation
ReturnUnattenuated ==
    /\ tpc = "unwind"
    /\ stack # <<>>
    /\ result' = result
    /\ stack' = SubSeq(stack, 1, Len(stack) - 1)
    /\ UNCHANGED <<call, ret, cur, tpc, tlog, mainVars>>

\* an inner call returns to the frame that made it
Return ==
    /\ tpc = "unwind"
    /\ stack # <<>>
    /\ result' = VMul(stack[Len(stack)], result)
    /\ stack' = SubSeq(stack, 1, Len(stack) - 1)
    /\ UNCHANGED <<call, ret, cur, tpc, tlog, mainVars>>

\* the outermost call returns
Finish ==
    /\ tpc = "unwind"
    /\ stack = <<>>
    /\ ret' = Some(result)
    /\ tpc' = "done"
    /\ UNCHANGED <<call, stack, cur, result, tlog, mainVars>>

NextTrace ==
    \/ CallRayColor
    \/ EnterBudget
    \/ EnterMiss
    \/ EnterAbsorbed
    \/ EnterScatter
    \/ Return
    \/ Finish

SpecTrace == Init /\ [][NextTrace]_vars

\* world.hit and scatter return, so an activation that can step does
SpecTraceFair == SpecTrace /\ WF_vars(NextTrace)

-----------------------------------------------------------------------------
(* main.rs: the render loop, and vec3.rs: write_color                      *)

IMAGE_WIDTH == 4

\* (IMAGE_WIDTH as f64 / ASPECT_RATIO) as i32, ASPECT_RATIO = 16/9
IMAGE_HEIGHT == (IMAGE_WIDTH * 9) \div 16

SAMPLES_PER_PIXEL == 1

\* the range lo..hi (hi excluded) as what the iterator has yet to yield
Range(lo, hi) == [k \in 1..(hi - lo) |-> lo + k - 1]

\* the iterator left as it is
RevForward(s) == s

\* .rev()
Rev(s) == [k \in 1..Len(s) |-> s[Len(s) + 1 - k]]

\* utils.rs: clamp
clamp(x, min, max) == IF Lt(x, min) THEN min ELSE IF Lt(max, x) THEN max ELSE x

\* `as i32` of a number x >= 0 whose square root has no negative factor
AsI32(x) == (x.n + Isqrt(x.s * x.s * x.D)) \div x.d

\* one channel of write_color
Channel(x, scale) ==
    AsI32(NumMul(Int2Num(256),
                 clamp(NumSqrt(NumMul(x, scale)), Int2Num(0), Rat(999, 1000))))

\* write_color from `r = (r * scale).sqrt()` on
WriteScaled(pixel_color, scale) ==
    ToString(Channel(pixel_color[1], scale)) \o " "
        \o ToString(Channel(pixel_color[2], scale)) \o " "
        \o ToString(Channel(pixel_color[3], scale))

write_color(pixel_color, samples_per_pixel) ==
    WriteScaled(pixel_color, Rat(1, samples_per_pixel))

\* println!("P3\n{IMAGE_WIDTH} {IMAGE_HEIGHT}\n255"), a line an element
Header ==
    <<"P3", ToString(IMAGE_WIDTH) \o " " \o ToString(IMAGE_HEIGHT), "255">>

\* ray_color(&r, &world, MAX_DEPTH) of line 85: r is bound nowhere in main and
\* camera.rs is not in the repository, so the colour of a sample is one of two
\* colours ray_color returns: black, and the sky of a ray pointing up
SampleColors == { Black, Sky(Ray(IV(0, 0, 0), IV(0, 1, 0))) }

\* main up to the row loop
StartMain ==
    /\ call = Idle
    /\ mpc = "idle"
    /\ call' = [op |-> "main"]
    /\ out' = Header
    /\ rows' = Rev(Range(0, IMAGE_HEIGHT))
    /\ mpc' = "row"
    /\ UNCHANGED <<ret, traceVars, j, cols, i, sample, color, err, order>>

\* for j in (0..IMAGE_HEIGHT).rev(): the next row
RowNext ==
    /\ mpc = "row"
    /\ rows # <<>>
    /\ j' = Head(rows)
    /\ rows' = Tail(rows)
    /\ err' = Append(err, "Scalines remaining: " \o ToString(Head(rows)))
    /\ cols' = Range(0, IMAGE_WIDTH)
    /\ mpc' = "pixel"
    /\ UNCHANGED <<callVars, traceVars, i, sample, color, out, order>>

\* the row loop ends, and main with it
RowsDone ==
    /\ mpc = "row"
    /\ rows = <<>>
    /\ mpc' = "done"
    /\ UNCHANGED <<callVars, traceVars, rows, j, cols, i, sample, color, out,
                   err, order>>

\* for i in 0..IMAGE_WIDTH: the next pixel
PixelNext ==
    /\ mpc = "pixel"
    /\ cols # <<>>
    /\ i' = Head(cols)
    /\ cols' = Tail(cols)
    /\ color' = Black
    /\ sample' = 0
    /\ mpc' = "sample"
    /\ UNCHANGED <<callVars, traceVars, rows, j, out, err, order>>

\* the column loop ends
ColsDone ==
    /\ mpc = "pixel"
    /\ cols = <<>>
    /\ mpc' = "row"
    /\ UNCHANGED <<callVars, traceVars, rows, j, cols, i, sample, color, out,
                   err, order>>

\* for _ in 0..SAMPLES_PER_PIXEL: color = color + ray_color(..)
Sample ==
    /\ mpc = "sample"
    /\ sample < SAMPLES_PER_PIXEL
    /\ \E c \in SampleColors : color' = VAdd(color, c)
    /\ sample' = sample + 1
    /\ UNCHANGED <<callVars, traceVars, rows, j, cols, i, out, err, order, mpc>>

\* println!("{}", write_color(color, SAMPLES_PER_PIXEL))
Emit ==
    /\ mpc = "sample"
    /\ sample >= SAMPLES_PER_PIXEL
    /\ out' = Append(out, write_color(color, SAMPLES_PER_PIXEL))
    /\ order' = Append(order, <<j, i>>)
    /\ mpc' = "pixel"
    /\ UNCHANGED <<callVars, traceVars, rows, j, cols, i, sample, color, err>>

NextMain ==
    \/ StartMain
    \/ RowNext
    \/ RowsDone
    \/ PixelNext
    \/ ColsDone
    \/ Sample
    \/ Emit

SpecMain == Init /\ [][NextMain]_vars

-----------------------------------------------------------------------------
(* The vocabulary of the claims about intersection: the quadratic          *)
(* a t^2 + 2 half_b t + c = 0 of a sphere and a ray, and its two roots.    *)

QuadA(ray) == len_squared(ray.direction)

QuadHalfB(sphere, ray) == dot(VSub(ray.origin, sphere.center), ray.direction)

QuadC(sphere, ray) ==
    NumSub(len_squared(VSub(ray.origin, sphere.center)),
           NumMul(sphere.radius, sphere.radius))

QuadDisc(sphere, ray) ==
    NumSub(NumMul(QuadHalfB(sphere, ray), QuadHalfB(sphere, ray)),
           NumMul(QuadA(ray), QuadC(sphere, ray)))

HasRoots(sphere, ray) == NumSign(QuadDisc(sphere, ray)) >= 0

SmallerRoot(sphere, ray) ==
    NumDiv(NumSub(NumNeg(QuadHalfB(sphere, ray)), NumSqrt(QuadDisc(sphere, ray))),
           QuadA(ray))

LargerRoot(sphere, ray) ==
    NumDiv(NumAdd(NumNeg(QuadHalfB(sphere, ray)), NumSqrt(QuadDisc(sphere, ray))),
           QuadA(ray))

\* t_min <= x <= t_max
Inside(x, t_min, t_max) == ~Lt(x, t_min) /\ ~Lt(t_max, x)

\* the intersection parameters of one sphere that lie inside the interval
RootsInside(sphere, ray, t_min, t_max) ==
    IF HasRoots(sphere, ray)
    THEN { r \in {SmallerRoot(sphere, ray), LargerRoot(sphere, ray)} :
             Inside(r, t_min, t_max) }
    ELSE {}

AllRootsInside(objects, ray, t_min, t_max) ==
    UNION { RootsInside(objects[k], ray, t_min, t_max) : k \in 1..Len(objects) }

OutwardNormalAt(sphere, p) == VDiv(VSub(p, sphere.center), sphere.radius)

OriginStrictlyInside(sphere, ray) == NumSign(QuadC(sphere, ray)) < 0

OriginStrictlyOutside(sphere, ray) == NumSign(QuadC(sphere, ray)) > 0

\* the direction is a positive multiple of center - origin
AimedAtCenter(sphere, ray) ==
    LET to_center == VSub(sphere.center, ray.origin)
    IN  /\ VEq(cross(ray.direction, to_center), IV(0, 0, 0))
        /\ NumSign(dot(ray.direction, to_center)) > 0

IsSphereCall == call.op = "Sphere.hit"

IsListCall == call.op = "ObjectList.hit"

TheSphere == call.objects[1]

-----------------------------------------------------------------------------
(* Claims about Sphere::hit and ObjectList::hit, checked under SpecHit     *)

\* C1: ObjectList.hit over an interval t_min < t_max returns none when no
\* child has an intersection parameter inside the interval, and otherwise a
\* record whose t is the least of the children's parameters inside it.
C1_ListReturnsClosest ==
    (IsListCall /\ Lt(call.t_min, call.t_max)) =>
        LET roots == AllRootsInside(call.objects, call.ray, call.t_min, call.t_max)
        IN  IF roots = {} THEN ret = None
            ELSE /\ IsSome(ret)
                 /\ \E r \in roots : NumEq(r, Unwrap(ret).t)
                 /\ \A r \in roots : ~Lt(r, Unwrap(ret).t)

\* a list of one sphere around the ray's origin, over (0.001, infinity): the
\* ray leaves the sphere at t = 2 and the record returned has t = -2
C1_Witness ==
    /\ IsListCall
    /\ call.objects = <<Sphere(IV(0, 0, 0), Rat(2, 1), material_ground)>>
    /\ call.ray = Ray(IV(0, 0, 0), IV(0, 0, -1))
    /\ call.t_min = T_MIN
    /\ IsInf(call.t_max)
    /\ IsSome(ret)
    /\ NumEq(Unwrap(ret).t, Rat(-2, 1))

\* C2: a ray that starts strictly inside a sphere of positive radius, tested
\* over (t_min, infinity) with t_min > 0, gets a hit with front_face false and
\* the negated outward normal.
C2_InsideHitIsBackFace ==
    (/\ IsSphereCall
     /\ NumSign(TheSphere.radius) > 0
     /\ OriginStrictlyInside(TheSphere, call.ray)
     /\ NumSign(call.t_min) > 0
     /\ IsInf(call.t_max)) =>
        /\ IsSome(ret)
        /\ Unwrap(ret).front_face = FALSE
        /\ VEq(Unwrap(ret).normal,
               VNeg(OutwardNormalAt(TheSphere, Unwrap(ret).p)))

\* the sphere of radius 0.5 at (0,0,-1) and a ray from its center, over
\* (0.001, infinity): the record returned is the one at t = -0.5, behind the
\* origin, and it is a front face
C2_Witness ==
    /\ IsSphereCall
    /\ TheSphere = Sphere(IV(0, 0, -1), Rat(1, 2), material_center)
    /\ call.ray = Ray(IV(0, 0, -1), IV(0, 0, -1))
    /\ call.t_min = T_MIN
    /\ IsInf(call.t_max)
    /\ IsSome(ret)
    /\ NumEq(Unwrap(ret).t, Rat(-1, 2))
    /\ Unwrap(ret).front_face = TRUE

\* C3: a ray that starts strictly outside a sphere of positive radius and is
\* aimed at its center, tested over (t_min, infinity) with a positive t_min
\* no greater than the entry parameter, gets a hit with t > 0, front_face
\* true and the outward normal, which points back against the ray.
C3_AimedHitIsFrontFace ==
    (/\ IsSphereCall
     /\ NumSign(TheSphere.radius) > 0
     /\ OriginStrictlyOutside(TheSphere, call.ray)
     /\ AimedAtCenter(TheSphere, call.ray)
     /\ NumSign(call.t_min) > 0
     /\ ~Lt(SmallerRoot(TheSphere, call.ray), call.t_min)
     /\ IsInf(call.t_max)) =>
        /\ IsSome(ret)
        /\ NumSign(Unwrap(ret).t) > 0
        /\ Unwrap(ret).front_face = TRUE
        /\ VEq(Unwrap(ret).normal, OutwardNormalAt(TheSphere, Unwrap(ret).p))
        /\ NumSign(dot(Unwrap(ret).normal, call.ray.direction)) < 0

\* the eye's ray down -z meets main's center sphere at t = 0.5
C3_Witness ==
    /\ IsSphereCall
    /\ NumSign(TheSphere.radius) > 0
    /\ OriginStrictlyOutside(TheSphere, call.ray)
    /\ AimedAtCenter(TheSphere, call.ray)
    /\ call.t_min = T_MIN
    /\ IsInf(call.t_max)
    /\ IsSome(ret)
    /\ NumEq(Unwrap(ret).t, SmallerRoot(TheSphere, call.ray))
    /\ Unwrap(ret).front_face

\* C7: Sphere.hit returns the smaller root when it lies inside the interval,
\* otherwise the larger root when that one does, with p = ray.at(t) for the
\* same t; and no hit when the discriminant is negative or neither root lies
\* inside.
C7_HitIsRootInsideInterval ==
    IsSphereCall =>
        LET lo == SmallerRoot(TheSphere, call.ray)
            hi == LargerRoot(TheSphere, call.ray)
            expect(t) == /\ IsSome(ret)
                         /\ NumEq(Unwrap(ret).t, t)
                         /\ VEq(Unwrap(ret).p, at(call.ray, t))
        IN  IF ~HasRoots(TheSphere, call.ray) THEN ret = None
            ELSE IF Inside(lo, call.t_min, call.t_max) THEN expect(lo)
            ELSE IF Inside(hi, call.t_min, call.t_max) THEN expect(hi)
            ELSE ret = None

\* the smaller root lies below t_min, the larger inside the interval, and
\* the record returned carries the smaller
C7_Witness ==
    /\ IsSphereCall
    /\ HasRoots(TheSphere, call.ray)
    /\ Lt(SmallerRoot(TheSphere, call.ray), call.t_min)
    /\ Inside(LargerRoot(TheSphere, call.ray), call.t_min, call.t_max)
    /\ IsSome(ret)
    /\ NumEq(Unwrap(ret).t, SmallerRoot(TheSphere, call.ray))
    /\ Lt(Unwrap(ret).t, call.t_min)

\* C8: every record Sphere.hit or ObjectList.hit returns has a normal that
\* opposes the ray, dot(direction, normal) <= 0, and front_face is true
\* exactly when dot(direction, (p - center) / radius) < 0 for the sphere hit.
C8_NormalOpposesRay ==
    ((IsSphereCall \/ IsListCall) /\ IsSome(ret)) =>
        LET rec == Unwrap(ret)
        IN  /\ NumSign(dot(call.ray.direction, rec.normal)) <= 0
            /\ \E k \in 1..Len(call.objects) :
                 LET outward == OutwardNormalAt(call.objects[k], rec.p)
                     facing == NumSign(dot(call.ray.direction, outward)) < 0
                 IN  /\ rec.front_face = facing
                     /\ VEq(rec.normal, IF facing THEN outward ELSE VNeg(outward))

\* a list whose closest record lies on a sphere of negative radius, whose
\* (p - center) / radius points along the ray: the normal returned is its
\* negation
C8_Witness ==
    /\ IsListCall
    /\ IsSome(ret)
    /\ Len(call.objects) = 2
    /\ Unwrap(ret).front_face = FALSE
    /\ NumSign(dot(call.ray.direction, Unwrap(ret).normal)) < 0
    /\ \E k \in 1..2 :
         /\ NumSign(call.objects[k].radius) < 0
         /\ VEq(Unwrap(ret).normal,
                VNeg(OutwardNormalAt(call.objects[k], Unwrap(ret).p)))
         /\ NumEq(len_squared(VSub(Unwrap(ret).p, call.objects[k].center)),
                  NumMul(call.objects[k].radius, call.objects[k].radius))

-----------------------------------------------------------------------------
(* Claims about the materials, checked under SpecScatter                   *)

IsMetalCall == call.op = "Metal.scatter"

IsDielectricCall == call.op = "Dielectric.scatter"

UnitIncoming == unit_vector(call.ray.direction)

\* v - 2 dot(v, n) n
Mirror(v, n) == VSub(v, VScale(n, NumMul(Int2Num(2), dot(v, n))))

\* eta (uv + cos n) and -sqrt|1 - |r_out_perp|^2| n, with cos = min(-uv.n, 1)
Refraction(uv, n, eta) ==
    LET cos == NumMin(NumNeg(dot(uv, n)), Int2Num(1))
        perp == VScale(VAdd(uv, VScale(n, cos)), eta)
        par == VScale(n, NumNeg(NumSqrt(NumAbs(
                   NumSub(Int2Num(1), len_squared(perp))))))
    IN  <<perp, par>>

\* R0 + (1 - R0)(1 - cos)^5 with R0 = ((1 - eta)/(1 + eta))^2
Schlick(cos, eta) ==
    LET q == NumDiv(NumSub(Int2Num(1), eta), NumAdd(Int2Num(1), eta))
        R0 == NumMul(q, q)
        w == NumSub(Int2Num(1), cos)
        w5 == NumMul(NumMul(NumMul(w, w), NumMul(w, w)), w)
    IN  NumAdd(R0, NumMul(NumSub(Int2Num(1), R0), w5))

RefractionRatio ==
    IF call.rec.front_face THEN NumDiv(Int2Num(1), call.mat.ref_idx)
    ELSE call.mat.ref_idx

CosTheta == NumMin(NumNeg(dot(UnitIncoming, call.rec.normal)), Int2Num(1))

\* refraction_ratio * sin_theta > 1, squared: eta^2 (1 - cos^2) > 1
CannotRefract ==
    Lt(Int2Num(1),
       NumMul(NumMul(RefractionRatio, RefractionRatio),
              NumSub(Int2Num(1), NumMul(CosTheta, CosTheta))))

SumEq(a, b) == Len(a) = Len(b) /\ \A k \in 1..Len(a) : VEq(a[k], b[k])

\* the draw random_in_unit_sphere kept
KeptDraw == call.draws[Len(call.draws)]

\* C6: Dielectric.scatter always returns a scatter with attenuation (1,1,1);
\* its direction is the reflection of the unit incoming direction when
\* refraction_ratio * sin_theta > 1 or the uniform draw is below the Schlick
\* reflectance, and the refraction otherwise; refraction_ratio is 1/ref_idx
\* on a front face and ref_idx otherwise.
C6_DielectricReflectsOrRefracts ==
    IsDielectricCall =>
        /\ IsSome(ret)
        /\ VEq(Unwrap(ret).attenuation, IV(1, 1, 1))
        /\ VEq(Unwrap(ret).scattered.origin, call.rec.p)
        /\ SumEq(Unwrap(ret).scattered.direction,
                 IF CannotRefract \/ Lt(call.u, Schlick(CosTheta, RefractionRatio))
                 THEN <<Mirror(UnitIncoming, call.rec.normal)>>
                 ELSE Refraction(UnitIncoming, call.rec.normal, RefractionRatio))

\* total internal reflection: leaving the glass at 45 degrees, with a draw
\* above the reflectance
C6_Witness ==
    /\ IsDielectricCall
    /\ call.rec.front_face = FALSE
    /\ CannotRefract
    /\ ~Lt(call.u, Schlick(CosTheta, RefractionRatio))
    /\ IsSome(ret)
    /\ Len(Unwrap(ret).scattered.direction) = 1

\* C10: Metal.scatter returns a scatter exactly when
\* reflect(unit incoming, normal) + fuzz * random_in_unit_sphere() has a
\* strictly positive dot product with the normal; then the attenuation is the
\* albedo, the ray starts at the hit point and has that direction.  With
\* fuzz = 0 the direction is the mirror reflection whatever was drawn.
C10_MetalScattersAboveSurface ==
    IsMetalCall =>
        LET mirrored == Mirror(UnitIncoming, call.rec.normal)
            perturbed == VAdd(mirrored, VScale(KeptDraw, call.mat.fuzz))
        IN  /\ IsSome(ret) <=> NumSign(dot(perturbed, call.rec.normal)) > 0
            /\ IsSome(ret) =>
                 /\ VEq(Unwrap(ret).attenuation, call.mat.albedo)
                 /\ VEq(Unwrap(ret).scattered.origin, call.rec.p)
                 /\ VEq(Unwrap(ret).scattered.direction, perturbed)
                 /\ NumSign(call.mat.fuzz) = 0 =>
                      VEq(Unwrap(ret).scattered.direction, mirrored)

\* a fuzzy metal whose perturbation, kept after a rejected draw, pushed the
\* reflection into the surface
C10_Witness ==
    /\ IsMetalCall
    /\ NumSign(call.mat.fuzz) > 0
    /\ NumSign(dot(Mirror(UnitIncoming, call.rec.normal), call.rec.normal)) > 0
    /\ Len(call.draws) > 1
    /\ ret = None

-----------------------------------------------------------------------------
(* Claims about ray_color, checked under SpecTrace and SpecTraceFair       *)

IsRayColorCall == call.op = "ray_color"

Returned == tpc = "done"

\* what world.hit(r, 0.001, INFINITY) returns for the ray of an activation
HitOf(activation) ==
    ObjectListHit(call.world, activation.ray, T_MIN, Infinity)

\* the colour the activations k.. of a log return: the last one black or the
\* sky, each one before it its attenuation times the colour of the next
RECURSIVE ColorFrom(_, _)
ColorFrom(log, k) ==
    IF k = Len(log)
    THEN IF log[k].outcome = "miss" THEN Sky(log[k].ray) ELSE Black
    ELSE VMul(log[k].attenuation, ColorFrom(log, k + 1))

\* C4: ray_color called with depth <= 0 returns black, (0,0,0), whatever the
\* ray and the world, and calls neither world.hit nor scatter.
C4_NoBudgetIsBlack ==
    (IsRayColorCall /\ call.depth <= 0) =>
        /\ \A k \in 1..Len(tlog) : ~tlog[k].hit /\ ~tlog[k].scatter
        /\ Len(tlog) <= 1
        /\ stack = <<>>
        /\ Returned => /\ Len(tlog) = 1
                       /\ ret = Some(Color(Rat(0, 1), Rat(0, 1), Rat(0, 1)))

\* depth 0, a ray that meets a sphere of main's world: black all the same
C4_Witness ==
    /\ IsRayColorCall
    /\ call.depth = 0
    /\ call.world = World
    /\ IsSome(ObjectListHit(call.world, call.ray, T_MIN, Infinity))
    /\ Returned
    /\ ret = Some(Black)
    /\ Len(tlog) = 1

\* what C9 says of every state of a call with depth >= 0
C9_Shape ==
    (IsRayColorCall /\ call.depth >= 0) =>
        \* at most depth nested calls below the outermost one
        /\ Len(tlog) <= call.depth + 1
        /\ Len(stack) <= call.depth
        \* each one made with the budget of its caller less 1, by a scatter
        /\ \A k \in 1..Len(tlog) :
             /\ tlog[k].depth = call.depth - (k - 1)
             /\ k < Len(tlog) => tlog[k].outcome = "scattered"
             \* black at budget 0 without a hit test; else the sky on a
             \* miss, black or a recursion on a hit
             /\ tlog[k].outcome = "budget" <=> tlog[k].depth = 0
             /\ tlog[k].depth > 0 =>
                  (tlog[k].outcome = "miss" <=> HitOf(tlog[k]) = None)
        \* the value returned
        /\ Returned =>
             /\ tlog # <<>>
             /\ tlog[Len(tlog)].outcome # "scattered"
             /\ SumEq(ret, Some(ColorFrom(tlog, 1)))

\* a call that was entered returns
C9_Terminates == (IsRayColorCall /\ tpc = "enter") ~> Returned

\* C9: a call ray_color(ray, world, depth) with depth >= 0 returns, after at
\* most depth nested calls, each with the budget less 1; it returns black when
\* the budget is 0 or the material does not scatter, the sky on a miss, and
\* otherwise the attenuation times the result of the nested call.
C9_RayColorTerminates == []C9_Shape /\ C9_Terminates

\* a bounce off a sphere of main's world that is not glass and then the sky:
\* the result is the sky times the sphere's albedo
C9_Witness ==
    /\ IsRayColorCall
    /\ call.depth = 2
    /\ call.world = World
    /\ Returned
    /\ Len(tlog) = 2
    /\ tlog[1].outcome = "scattered"
    /\ tlog[1].attenuation # IV(1, 1, 1)
    /\ tlog[2].depth = 1
    /\ tlog[2].outcome = "miss"
    /\ ret # Some(Black)
    /\ ret # Some(Sky(tlog[2].ray))
    /\ ret = Some(VMul(tlog[1].attenuation, Sky(tlog[2].ray)))

-----------------------------------------------------------------------------
(* The claim about the render loop, checked under SpecMain                 *)

\* the k-th pixel of a width-wide image in row-major order, top row first
PixelAt(k, width, height) ==
    <<height - 1 - ((k - 1) \div width), (k - 1) % width>>

\* C5: main prints the header lines P3, "width height", 255 and then one line
\* a pixel, width * height of them, rows from height-1 down to 0 and in a row
\* columns from 0 up to width-1, each pixel once.
C5_RowMajorTopDown ==
    call.op = "main" =>
        /\ Len(out) = 3 + Len(order)
        /\ out[1] = "P3"
        /\ out[2] = ToString(IMAGE_WIDTH) \o " " \o ToString(IMAGE_HEIGHT)
        /\ out[3] = "255"
        /\ Len(order) <= IMAGE_WIDTH * IMAGE_HEIGHT
        /\ \A k \in 1..Len(order) :
             order[k] = PixelAt(k, IMAGE_WIDTH, IMAGE_HEIGHT)
        /\ mpc = "done" => Len(order) = IMAGE_WIDTH * IMAGE_HEIGHT

\* the image is out: the first line after the header is pixel (height-1, 0),
\* the last one pixel (0, width-1)
C5_Witness ==
    /\ call.op = "main"
    /\ mpc = "done"
    /\ IMAGE_HEIGHT > 1
    /\ Len(out) = 3 + IMAGE_WIDTH * IMAGE_HEIGHT
    /\ order[1] = <<IMAGE_HEIGHT - 1, 0>>
    /\ order[IMAGE_WIDTH + 1] = <<IMAGE_HEIGHT - 2, 0>>
    /\ order[Len(order)] = <<0, IMAGE_WIDTH - 1>>

=============================================================================
